---- MODULE Spec2Model ----
(***************************************************************************)
(* bilge: the session tracker, classification cache, rule engine and poll  *)
(* loop of src/run.py, src/ai.py, src/rules_engine.py, src/data_manager.py *)
(* as one state machine.  One action per statement group of BilgeApp.run   *)
(* between two points at which a KeyboardInterrupt can be delivered or an  *)
(* exception can leave the tick.                                           *)
(***************************************************************************)
EXTENDS Integers, Sequences, FiniteSets, TLC

VARIABLES
    pc,                          \* position of the single thread in BilgeApp.run
    now,                         \* the wall clock, in whole seconds
    current_session_start_time,  \* run.py:31
    current_session_category,    \* run.py:32
    current_session_app_name,    \* run.py:33
    last_app_data,               \* run.py:34
    nudged_for_session,          \* run.py:36
    current_app_data,            \* local of run, run.py:55
    current_category,            \* local of run, run.py:61
    current_session_duration,    \* local of run, run.py:93
    triggered_rule,              \* local of run, run.py:98
    message,                     \* local of run, run.py:108
    category_cache,              \* AIAgent.category_cache, ai.py:43
    cache_file,                  \* cache/app_categories.json on disk
    data,                        \* DataManager.data, data_manager.py:16
    log_file,                    \* logs/<date>.json on disk
    rules,                       \* RulesEngine.rules, rules_engine.py:24
    last_nudged_time,            \* RulesEngine.last_nudged_time, rules_engine.py:22
    last_modified_time,          \* RulesEngine.last_modified_time, rules_engine.py:23
    config_file,                 \* rules_config.json on disk
    hist                         \* history of the run, read by the properties only

vars == <<pc, now, current_session_start_time, current_session_category,
          current_session_app_name, last_app_data, nudged_for_session,
          current_app_data, current_category, current_session_duration,
          triggered_rule, message, category_cache, cache_file, data, log_file,
          rules, last_nudged_time, last_modified_time, config_file, hist>>

session_vars == <<current_session_start_time, current_session_category,
                  current_session_app_name, last_app_data, nudged_for_session>>
local_vars == <<current_app_data, current_category, current_session_duration,
                triggered_rule, message>>
cache_vars == <<category_cache, cache_file>>
log_vars == <<data, log_file>>
engine_vars == <<rules, last_nudged_time, last_modified_time>>

----------------------------------------------------------------------------
(* Bounds of the model *)

MaxTicks == 3
MaxTime == 6
MaxWait == 1
MaxEdits == 1
MaxDuration == 3

(* Program constants *)

SLEEP_SECONDS == 1
BACKOFF_SECONDS == 5

----------------------------------------------------------------------------
(* Python values *)

\* Python's None, where a string is expected
NONE == "<None>"

\* str(x) as an f-string renders it: None becomes the text "None"
Str(x) == IF x = NONE THEN "None" ELSE x

\* A plain str, as the generic and the macOS monitor return for an application
Simple(name) ==
    [kind |-> "str", name |-> name, window_name |-> NONE,
     active_tab_title |-> NONE, active_tab_url |-> NONE]

\* The dict get_chrome_activity returns; tab_url is None when the AppleScript
\* output holds no "|||"
Browser(tab_title, tab_url) ==
    [kind |-> "dict", name |-> NONE, window_name |-> "Google Chrome",
     active_tab_title |-> tab_title, active_tab_url |-> tab_url]

\* get_active_window returning None
NoActivity ==
    [kind |-> "None", name |-> NONE, window_name |-> NONE,
     active_tab_title |-> NONE, active_tab_url |-> NONE]

\* Python truthiness of an observation: None and "" are false, a dict with keys is true
Truthy(app_data) ==
    /\ app_data.kind # "None"
    /\ ~(app_data.kind = "str" /\ app_data.name = "")

\* Python truthiness of an optional string
TruthyStr(s) == s # NONE /\ s # ""

\* What the Window Observer can report in this model
Activities == {Simple("Code"), Browser("Docs", "d.io"), Browser("News", NONE)}

----------------------------------------------------------------------------
(* BilgeApp._get_app_info *)

_get_app_info(app_data) ==
    IF app_data.kind = "dict"
    THEN [categorization_string |->
              Str(app_data.active_tab_title) \o " | " \o Str(app_data.active_tab_url),
          app_name_for_log |->
              Str(app_data.window_name) \o " | " \o Str(app_data.active_tab_title)]
    ELSE [categorization_string |-> app_data.name,
          app_name_for_log |-> app_data.name]

----------------------------------------------------------------------------
(* AIAgent *)

valid_categories == {"Work", "Gaming", "Browsing", "Communication", "Media", "Other"}

\* ai.py:78-82: the key of categorize_app's argument, a str or a dict
cache_key(app_data) ==
    IF app_data.kind = "str"
    THEN app_data.name
    ELSE "chrome|" \o Str(app_data.active_tab_title) \o "|" \o Str(app_data.active_tab_url)

\* run.py:58-63: the loop hands categorize_app the categorization string
CategorizeArg(app_data) == Simple(_get_app_info(app_data).categorization_string)

\* What the Classifier Service can answer to a categorization prompt; LLMFailure
\* stands for a transport error or a response pydantic cannot validate
LLMFailure == "<exception>"
LLMAnswers == {"Work", "Gaming", "work", "WORK ", LLMFailure}

\* The answer taken as it comes, without the check of ai.py:114-123
CategoryOfUnchecked(answer) ==
    IF answer = LLMFailure THEN "Other" ELSE answer

\* ai.py:109-123
CategoryOf(answer) ==
    LET category == IF answer = LLMFailure THEN "Other" ELSE answer
    IN  IF category \notin valid_categories THEN "Other" ELSE category

EmptyMap == [k \in {} |-> NONE]

Put(map, k, v) == [x \in DOMAIN map \cup {k} |-> IF x = k THEN v ELSE map[x]]

\* The cache file a previous run of the program can have left behind
InitialCacheFiles == {Put(EmptyMap, "Code", "Work")}

NudgeFallback == "Consider taking a break from your screen."

----------------------------------------------------------------------------
(* RulesEngine *)

DEFAULT_RULES ==
    << <<"Work", 30, "short_work_session">>,
       <<"Gaming", 20, "short_gaming_session">>,
       <<"Browsing", 15, "short_browsing_session">>,
       <<"Media", 10, "short_media_session">>,
       <<"Communication", 10, "short_communication_session">> >>

\* Contents rules_config.json can have: json is "ok", "invalid" (not JSON) or
\* "shape" (JSON without the "rules" list of category/duration_seconds/action_name)
Config(json, rs) == [json |-> json, rules |-> rs]

ConfigContents ==
    { Config("ok", << <<"Work", 1, "short_work_session">> >>),
      Config("ok", << <<"Work", 3, "take_a_break">>, <<"Gaming", 1, "take_a_break">> >>),
      Config("ok", << <<"Work", 2, "take_a_break">>,
                      <<"Work", 1, "short_work_session">> >>),
      Config("invalid", << >>),
      Config("shape", << >>) }

NoFile == [exists |-> FALSE, mtime |-> 0, content |-> Config("invalid", << >>)]

\* rules_engine.py:26-46: what load_rules returns or raises, and the
\* last_modified_time it leaves
load_rules(file, last_modified) ==
    IF ~file.exists
    THEN [raised |-> FALSE, from_file |-> FALSE, rules |-> DEFAULT_RULES,
          last_modified_time |-> last_modified]
    ELSE LET lm == IF file.mtime > last_modified THEN file.mtime ELSE last_modified
         IN  CASE file.content.json = "invalid" ->
                    [raised |-> FALSE, from_file |-> FALSE, rules |-> DEFAULT_RULES,
                     last_modified_time |-> lm]
               [] file.content.json = "shape" ->
                    [raised |-> TRUE, from_file |-> FALSE, rules |-> << >>,
                     last_modified_time |-> lm]
               [] OTHER ->
                    [raised |-> FALSE, from_file |-> TRUE, rules |-> file.content.rules,
                     last_modified_time |-> lm]

\* A cooldown of its own, one second longer than the rule's threshold
DebounceAllowsAfterCooldown(action, rule_duration, last_nudged, t) ==
    \/ action \notin DOMAIN last_nudged
    \/ t - last_nudged[action] > rule_duration + 1

\* The window of rules_engine.py:64 closed one second early
DebounceAllowsAtWindowEnd(action, rule_duration, last_nudged, t) ==
    \/ action \notin DOMAIN last_nudged
    \/ t - last_nudged[action] >= rule_duration

\* rules_engine.py:64: may this action fire now
DebounceAllows(action, rule_duration, last_nudged, t) ==
    \/ action \notin DOMAIN last_nudged
    \/ t - last_nudged[action] > rule_duration

\* The rules that would fire were the threshold exclusive
FiringPastThreshold(rs, category, duration, last_nudged, t) ==
    { i \in 1..Len(rs) :
        /\ rs[i][1] = category
        /\ duration > rs[i][2]
        /\ DebounceAllows(rs[i][3], rs[i][2], last_nudged, t) }

\* rules_engine.py:61-64: the rules that would fire, by position
Firing(rs, category, duration, last_nudged, t) ==
    { i \in 1..Len(rs) :
        /\ rs[i][1] = category
        /\ duration >= rs[i][2]
        /\ DebounceAllows(rs[i][3], rs[i][2], last_nudged, t) }

\* The last position in place of the first
Last(S) == CHOOSE x \in S : \A y \in S : x >= y

Min(S) == CHOOSE x \in S : \A y \in S : x <= y

NoRule == <<NONE, NONE, 0>>

----------------------------------------------------------------------------
(* DataManager.save_session, data_manager.py:52-58 *)

Entry(app_name, category, start_time, end_time) ==
    [start_time |-> start_time, end_time |-> end_time, app_name |-> app_name,
     category |-> category, duration_seconds |-> end_time - start_time]

----------------------------------------------------------------------------
(* History *)

NoHist ==
    [tick |-> [open |-> FALSE, obs |-> NoActivity, app_name |-> NONE, category |-> NONE,
               start_time |-> 0, last |-> NoActivity, nudged |-> FALSE, records |-> 0],
     ticks |-> 0,
     waited |-> 0,
     opened |-> 0,
     session |-> [app_name |-> NONE, category |-> NONE, start_time |-> 0],
     nudges |-> 0,
     first_observed |-> -1,
     llm_calls |-> EmptyMap,
     llm_answer |-> EmptyMap,
     fired_rule |-> NoRule,
     fired_before |-> -1,
     nudge_answer |-> NONE,
     delivery |-> NONE,
     loaded_ok |-> FALSE,
     last_good |-> << >>,
     edits |-> 0,
     interrupted |-> FALSE]

----------------------------------------------------------------------------
(* The state before BilgeApp is constructed: only the files exist *)

File(c) == [exists |-> TRUE, mtime |-> 1, content |-> c]

InitialConfigFiles == {NoFile} \cup {File(c) : c \in ConfigContents}

\* The rule file the poll loop is run with: rules short enough to trigger
\* within MaxTime
LoopConfigFiles ==
    {File(Config("ok", << <<"Work", 1, "short_work_session">>,
                          <<"Gaming", 2, "short_gaming_session">> >>))}

Files(configs) ==
    /\ pc = "construct"
    /\ now = 0
    /\ current_session_start_time = 0
    /\ current_session_category = NONE
    /\ current_session_app_name = NONE
    /\ last_app_data = NoActivity
    /\ nudged_for_session = FALSE
    /\ current_app_data = NoActivity
    /\ current_category = NONE
    /\ current_session_duration = 0
    /\ triggered_rule = NoRule
    /\ message = NONE
    /\ category_cache = EmptyMap
    /\ cache_file \in InitialCacheFiles
    /\ data = << >>
    /\ log_file = << >>
    /\ rules = << >>
    /\ last_nudged_time = EmptyMap
    /\ last_modified_time = 0
    /\ config_file \in configs
    /\ hist = NoHist

Init == Files(LoopConfigFiles)

InitEngine == Files(InitialConfigFiles)

----------------------------------------------------------------------------
(* BilgeApp.__init__, run.py:23-36, with the constructors it calls *)

\* History: the rule set of the last load that read the file through
Loaded(h, loaded) ==
    IF loaded.from_file
    THEN [h EXCEPT !.loaded_ok = TRUE, !.last_good = loaded.rules]
    ELSE h

\* rules_engine.py:23
InitialModifiedTime(file) == IF file.exists THEN file.mtime ELSE 0

\* rules_engine.py:19-24: RulesEngine(), which leaves the process at pc `then`
\* unless load_rules raises
ConstructEngine(then) ==
    LET loaded == load_rules(config_file, InitialModifiedTime(config_file))
    IN  /\ pc' = IF loaded.raised THEN "crashed" ELSE then
        /\ rules' = loaded.rules
        /\ last_modified_time' = loaded.last_modified_time
        /\ hist' = Loaded(hist, loaded)

Construct ==
    /\ pc = "construct"
    /\ ConstructEngine("observe")
    /\ data' = log_file
    /\ category_cache' = cache_file
    /\ current_session_start_time' = now
    /\ UNCHANGED <<now, current_session_category, current_session_app_name,
                   last_app_data, nudged_for_session, local_vars, cache_file,
                   log_file, last_nudged_time, config_file>>

----------------------------------------------------------------------------
(* BilgeApp.run: one tick *)

\* The session as the tick finds it
TickStart(obs) ==
    [open |-> TruthyStr(current_session_app_name), obs |-> obs,
     app_name |-> current_session_app_name, category |-> current_session_category,
     start_time |-> current_session_start_time, last |-> last_app_data,
     nudged |-> nudged_for_session, records |-> Len(data)]

\* An observer whose empty answer restarts the clock of the open session
ObserveNoneRestarts ==
    /\ pc = "observe"
    /\ hist.ticks < MaxTicks
    /\ \E obs \in Activities \cup {NoActivity} :
          /\ current_app_data' = obs
          /\ pc' = IF Truthy(obs) THEN "categorize" ELSE "sleep"
          /\ current_session_start_time' =
                IF Truthy(obs) THEN current_session_start_time ELSE now
          /\ hist' = [hist EXCEPT
                        !.tick = TickStart(obs),
                        !.ticks = @ + 1,
                        !.first_observed =
                            IF @ = -1 /\ Truthy(obs) THEN now ELSE @]
    /\ UNCHANGED <<now, current_session_category, current_session_app_name,
                   last_app_data, nudged_for_session, current_category,
                   current_session_duration, triggered_rule, message, cache_vars,
                   log_vars, engine_vars, config_file>>

\* run.py:55-57: the observer answers
Observe ==
    /\ pc = "observe"
    /\ hist.ticks < MaxTicks
    /\ \E obs \in Activities \cup {NoActivity} :
          /\ current_app_data' = obs
          /\ pc' = IF Truthy(obs) THEN "categorize" ELSE "sleep"
          /\ hist' = [hist EXCEPT
                        !.tick = TickStart(obs),
                        !.ticks = @ + 1,
                        !.first_observed =
                            IF @ = -1 /\ Truthy(obs) THEN now ELSE @]
    /\ UNCHANGED <<now, session_vars, current_category, current_session_duration,
                   triggered_rule, message, cache_vars, log_vars, engine_vars,
                   config_file>>

\* run.py:55: the observer raises (osascript missing, a psutil error not caught)
ObserveFails ==
    /\ pc = "observe"
    /\ hist.ticks < MaxTicks
    /\ pc' = "backoff"
    /\ hist' = [hist EXCEPT !.ticks = @ + 1]
    /\ UNCHANGED <<now, session_vars, local_vars, cache_vars, log_vars, engine_vars,
                   config_file>>

\* A hit that writes the category store as a miss does
CategorizeHitSaves ==
    /\ pc = "categorize"
    /\ LET key == cache_key(CategorizeArg(current_app_data))
       IN  /\ key \in DOMAIN category_cache
           /\ current_category' = category_cache[key]
    /\ cache_file' = category_cache
    /\ pc' = "check"
    /\ UNCHANGED <<now, session_vars, current_app_data, current_session_duration,
                   triggered_rule, message, category_cache, log_vars, engine_vars,
                   config_file, hist>>

\* run.py:58-63 with ai.py:78-85: the key, and the answer on a hit
CategorizeHit ==
    /\ pc = "categorize"
    /\ LET key == cache_key(CategorizeArg(current_app_data))
       IN  /\ key \in DOMAIN category_cache
           /\ current_category' = category_cache[key]
    /\ pc' = "check"
    /\ UNCHANGED <<now, session_vars, current_app_data, current_session_duration,
                   triggered_rule, message, cache_vars, log_vars, engine_vars,
                   config_file, hist>>

\* A categorize_app that can pass a key by the cache and ask the service again
CategorizeWithoutLookup ==
    /\ pc = "categorize"
    /\ pc' = "llm"
    /\ UNCHANGED <<now, session_vars, local_vars, cache_vars, log_vars, engine_vars,
                   config_file, hist>>

\* A miss that also takes a cached fallback for one, to ask again
CategorizeMissOrOther ==
    /\ pc = "categorize"
    /\ LET key == cache_key(CategorizeArg(current_app_data))
       IN  key \in DOMAIN category_cache => category_cache[key] = "Other"
    /\ pc' = "llm"
    /\ UNCHANGED <<now, session_vars, local_vars, cache_vars, log_vars, engine_vars,
                   config_file, hist>>

\* ai.py:84-99: a miss, the prompt is built
CategorizeMiss ==
    /\ pc = "categorize"
    /\ cache_key(CategorizeArg(current_app_data)) \notin DOMAIN category_cache
    /\ pc' = "llm"
    /\ UNCHANGED <<now, session_vars, local_vars, cache_vars, log_vars, engine_vars,
                   config_file, hist>>

\* ai.py:101-125: the Classifier Service is asked, its answer validated and stored
QueryLLM ==
    /\ pc = "llm"
    /\ \E answer \in LLMAnswers :
          LET key == cache_key(CategorizeArg(current_app_data))
          IN  /\ category_cache' = Put(category_cache, key, CategoryOf(answer))
              /\ hist' = [hist EXCEPT
                            !.llm_calls =
                                Put(@, key, IF key \in DOMAIN @ THEN @[key] + 1 ELSE 1),
                            !.llm_answer =
                                IF key \in DOMAIN @ THEN @ ELSE Put(@, key, answer)]
    /\ pc' = "save_cache"
    /\ UNCHANGED <<now, session_vars, local_vars, cache_file, log_vars, engine_vars,
                   config_file>>

\* A write that adds the new entry to the file in place of writing the whole map
SaveCacheEntry ==
    /\ pc = "save_cache"
    /\ LET key == cache_key(CategorizeArg(current_app_data))
       IN  /\ cache_file' = Put(cache_file, key, category_cache[key])
           /\ current_category' = category_cache[key]
    /\ pc' = "check"
    /\ UNCHANGED <<now, session_vars, current_app_data, current_session_duration,
                   triggered_rule, message, category_cache, log_vars, engine_vars,
                   config_file, hist>>

\* ai.py:126-127 with ai.py:66-71: the whole map is written, the category returned
SaveCache ==
    /\ pc = "save_cache"
    /\ cache_file' = category_cache
    /\ current_category' = category_cache[cache_key(CategorizeArg(current_app_data))]
    /\ pc' = "check"
    /\ UNCHANGED <<now, session_vars, current_app_data, current_session_duration,
                   triggered_rule, message, category_cache, log_vars, engine_vars,
                   config_file, hist>>

\* A failing write that takes the new entry out of the map in memory again
SaveCacheFailsForgets ==
    /\ pc = "save_cache"
    /\ pc' = "backoff"
    /\ category_cache' =
          [key \in DOMAIN category_cache \ {cache_key(CategorizeArg(current_app_data))}
             |-> category_cache[key]]
    /\ UNCHANGED <<now, session_vars, local_vars, cache_file, log_vars, engine_vars,
                   config_file, hist>>

\* ai.py:70: open or write raises OSError, which leaves categorize_app and the tick
SaveCacheFails ==
    /\ pc = "save_cache"
    /\ pc' = "backoff"
    /\ UNCHANGED <<now, session_vars, local_vars, cache_vars, log_vars, engine_vars,
                   config_file, hist>>

\* The condition of run.py:66-68 with the identity comparison left out
BoundaryOnCategory ==
    current_category # current_session_category

\* run.py:66-68
Boundary ==
    \/ current_app_data # last_app_data
    \/ current_category # current_session_category

\* run.py:66-69: the branch taken
Check ==
    /\ pc = "check"
    /\ pc' = IF Boundary
             THEN IF TruthyStr(current_session_app_name) THEN "save_session" ELSE "start_time"
             ELSE "duration"
    /\ UNCHANGED <<now, session_vars, local_vars, cache_vars, log_vars, engine_vars,
                   config_file, hist>>

\* A close that also leaves the tracker without a session until the next is opened
SaveSessionClears ==
    /\ pc = "save_session"
    /\ data' = Append(data, Entry(current_session_app_name, current_session_category,
                                  current_session_start_time, now))
    /\ current_session_app_name' = NONE
    /\ pc' = "save_data"
    /\ UNCHANGED <<now, current_session_start_time, current_session_category,
                   last_app_data, nudged_for_session, local_vars, cache_vars, log_file,
                   engine_vars, config_file, hist>>

\* run.py:70-78 with data_manager.py:52-59: the closed session joins DataManager.data
SaveSession ==
    /\ pc = "save_session"
    /\ data' = Append(data, Entry(current_session_app_name, current_session_category,
                                  current_session_start_time, now))
    /\ pc' = "save_data"
    /\ UNCHANGED <<now, session_vars, local_vars, cache_vars, log_file, engine_vars,
                   config_file, hist>>

\* data_manager.py:60 with 32-34: the whole list is written
SaveData ==
    /\ pc = "save_data"
    /\ log_file' = data
    /\ pc' = "start_time"
    /\ UNCHANGED <<now, session_vars, local_vars, cache_vars, data, engine_vars,
                   config_file, hist>>

\* data_manager.py:33: open or write raises OSError, which leaves the tick
SaveDataFails ==
    /\ pc = "save_data"
    /\ pc' = "backoff"
    /\ UNCHANGED <<now, session_vars, local_vars, cache_vars, log_vars, engine_vars,
                   config_file, hist>>

\* run.py:81
StartTime ==
    /\ pc = "start_time"
    /\ current_session_start_time' = now
    /\ pc' = "start_category"
    /\ UNCHANGED <<now, current_session_category, current_session_app_name,
                   last_app_data, nudged_for_session, local_vars, cache_vars, log_vars,
                   engine_vars, config_file, hist>>

\* run.py:82
StartCategory ==
    /\ pc = "start_category"
    /\ current_session_category' = current_category
    /\ pc' = "start_name"
    /\ UNCHANGED <<now, current_session_start_time, current_session_app_name,
                   last_app_data, nudged_for_session, local_vars, cache_vars, log_vars,
                   engine_vars, config_file, hist>>

\* run.py:83-90: from the assignment of the name on, the new session is the open one
StartName ==
    /\ pc = "start_name"
    /\ current_session_app_name' = _get_app_info(current_app_data).app_name_for_log
    /\ last_app_data' = current_app_data
    /\ nudged_for_session' = FALSE
    /\ hist' = [hist EXCEPT
                  !.opened = @ + 1,
                  !.nudges = 0,
                  !.session = [app_name |-> current_session_app_name',
                               category |-> current_session_category,
                               start_time |-> current_session_start_time]]
    /\ pc' = "duration"
    /\ UNCHANGED <<now, current_session_start_time, current_session_category,
                   local_vars, cache_vars, log_vars, engine_vars, config_file>>

\* The duration step without the test of run.py:97
DurationIgnoresFlag ==
    /\ pc = "duration"
    /\ current_session_duration' = now - current_session_start_time
    /\ pc' = "evaluate"
    /\ UNCHANGED <<now, session_vars, current_app_data, current_category,
                   triggered_rule, message, cache_vars, log_vars, engine_vars,
                   config_file, hist>>

\* run.py:93-97
Duration ==
    /\ pc = "duration"
    /\ current_session_duration' = now - current_session_start_time
    /\ pc' = IF ~nudged_for_session THEN "evaluate" ELSE "sleep"
    /\ UNCHANGED <<now, session_vars, current_app_data, current_category,
                   triggered_rule, message, cache_vars, log_vars, engine_vars,
                   config_file, hist>>

\* The evaluation against the rule set in memory: load_rules is called for the
\* modification time alone
EvaluateLoadedRules(category, duration, t) ==
    LET loaded == load_rules(config_file, last_modified_time)
        firing == Firing(rules, category, duration, last_nudged_time, t)
        rule   == IF firing = {} THEN NoRule ELSE rules[Min(firing)]
    IN  [raised |-> loaded.raised,
         loaded |-> loaded,
         before |-> IF firing # {} /\ rule[3] \in DOMAIN last_nudged_time
                    THEN last_nudged_time[rule[3]] ELSE -1,
         rules |-> rules,
         last_modified_time |-> loaded.last_modified_time,
         fired |-> ~loaded.raised /\ firing # {},
         rule |-> rule,
         last_nudged_time |->
             IF ~loaded.raised /\ firing # {}
             THEN Put(last_nudged_time, rule[3], t)
             ELSE last_nudged_time,
         result |-> IF ~loaded.raised /\ firing # {}
                    THEN <<rule[3], category, duration>>
                    ELSE NoRule]

\* The evaluation that stamps the action of a matching rule even when the
\* debounce refuses it
EvaluateStampsAttempt(category, duration, t) ==
    LET loaded == load_rules(config_file, last_modified_time)
        firing == Firing(loaded.rules, category, duration, last_nudged_time, t)
        rule   == IF firing = {} THEN NoRule ELSE loaded.rules[Min(firing)]
        matched == { i \in 1..Len(loaded.rules) :
                       loaded.rules[i][1] = category /\ duration >= loaded.rules[i][2] }
    IN  [raised |-> loaded.raised,
         loaded |-> loaded,
         before |-> IF firing # {} /\ rule[3] \in DOMAIN last_nudged_time
                    THEN last_nudged_time[rule[3]] ELSE -1,
         rules |-> IF loaded.raised THEN rules ELSE loaded.rules,
         last_modified_time |-> loaded.last_modified_time,
         fired |-> ~loaded.raised /\ firing # {},
         rule |-> rule,
         last_nudged_time |->
             IF ~loaded.raised /\ firing # {}
             THEN Put(last_nudged_time, rule[3], t)
             ELSE IF ~loaded.raised /\ matched # {}
                  THEN Put(last_nudged_time, loaded.rules[Min(matched)][3], t)
                  ELSE last_nudged_time,
         result |-> IF ~loaded.raised /\ firing # {}
                    THEN <<rule[3], category, duration>>
                    ELSE NoRule]

\* rules_engine.py:59-67: evaluate_current_session(category, duration) at time t,
\* as what it returns or raises and the engine state it leaves.  duration is in
\* whole seconds here, so int(duration) is duration.
evaluate_current_session(category, duration, t) ==
    LET loaded == load_rules(config_file, last_modified_time)
        firing == Firing(loaded.rules, category, duration, last_nudged_time, t)
        rule   == IF firing = {} THEN NoRule ELSE loaded.rules[Min(firing)]
    IN  [raised |-> loaded.raised,
         loaded |-> loaded,
         before |-> IF firing # {} /\ rule[3] \in DOMAIN last_nudged_time
                    THEN last_nudged_time[rule[3]] ELSE -1,
         rules |-> IF loaded.raised THEN rules ELSE loaded.rules,
         last_modified_time |-> loaded.last_modified_time,
         fired |-> ~loaded.raised /\ firing # {},
         rule |-> rule,
         last_nudged_time |->
             IF ~loaded.raised /\ firing # {}
             THEN Put(last_nudged_time, rule[3], t)
             ELSE last_nudged_time,
         result |-> IF ~loaded.raised /\ firing # {}
                    THEN <<rule[3], category, duration>>
                    ELSE NoRule]

\* run.py:98-102: the engine is asked, and returns
Evaluate ==
    /\ pc = "evaluate"
    /\ LET e == evaluate_current_session(current_session_category,
                                         current_session_duration, now)
       IN  /\ ~e.raised
           /\ rules' = e.rules
           /\ last_modified_time' = e.last_modified_time
           /\ last_nudged_time' = e.last_nudged_time
           /\ triggered_rule' = e.result
           /\ hist' = [Loaded(hist, e.loaded) EXCEPT
                         !.fired_rule = e.rule, !.fired_before = e.before]
           /\ pc' = IF e.fired THEN "nudge" ELSE "sleep"
    /\ UNCHANGED <<now, session_vars, current_app_data, current_category,
                   current_session_duration, message, cache_vars, log_vars,
                   config_file>>

\* rules_engine.py:39-40: load_rules raises KeyError or TypeError on JSON of
\* another shape, which leaves evaluate_current_session and the tick
EvaluateRaises ==
    /\ pc = "evaluate"
    /\ LET e == evaluate_current_session(current_session_category,
                                         current_session_duration, now)
       IN  /\ e.raised
           /\ last_modified_time' = e.last_modified_time
    /\ pc' = "backoff"
    /\ UNCHANGED <<now, session_vars, local_vars, cache_vars, log_vars, rules,
                   last_nudged_time, config_file, hist>>

\* What the Classifier Service can answer to a nudge prompt
NudgeAnswers == {"Time for a short walk.", LLMFailure}

\* A generate_nudge without the except clause of ai.py:149-151: the failure of
\* the Classifier Service leaves the tick
GenerateNudgeRaises ==
    /\ pc = "nudge"
    /\ \E answer \in NudgeAnswers :
          /\ message' = IF answer = LLMFailure THEN message ELSE answer
          /\ pc' = IF answer = LLMFailure THEN "backoff" ELSE "notify"
          /\ hist' = [hist EXCEPT !.nudge_answer = answer]
    /\ UNCHANGED <<now, session_vars, current_app_data, current_category,
                   current_session_duration, triggered_rule, cache_vars, log_vars,
                   engine_vars, config_file>>

\* run.py:104-108 with ai.py:129-151: the nudge text, or the fallback when the
\* Classifier Service fails
GenerateNudge ==
    /\ pc = "nudge"
    /\ \E answer \in NudgeAnswers :
          /\ message' = IF answer = LLMFailure THEN NudgeFallback ELSE answer
          /\ hist' = [hist EXCEPT !.nudge_answer = answer]
    /\ pc' = "notify"
    /\ UNCHANGED <<now, session_vars, current_app_data, current_category,
                   current_session_duration, triggered_rule, cache_vars, log_vars,
                   engine_vars, config_file>>

\* run.py:109 with notifier.py:8-29: notification.notify shows the message or
\* raises; either way send_notification returns
Notify ==
    /\ pc = "notify"
    /\ pc' = "set_flag"
    /\ \E outcome \in {"shown", "failed"} :
          hist' = [hist EXCEPT !.nudges = @ + 1, !.delivery = outcome]
    /\ UNCHANGED <<now, session_vars, local_vars, cache_vars, log_vars, engine_vars,
                   config_file>>

\* run.py:111
SetFlag ==
    /\ pc = "set_flag"
    /\ nudged_for_session' = TRUE
    /\ pc' = "sleep"
    /\ UNCHANGED <<now, current_session_start_time, current_session_category,
                   current_session_app_name, last_app_data, local_vars, cache_vars,
                   log_vars, engine_vars, config_file, hist>>

\* Locals of run are dead when a tick ends or is left (each is assigned before it
\* is read again, and the except clauses read none), and so is the history of the
\* tick: the model forgets them there
ForgetLocals ==
    /\ current_app_data' = NoActivity
    /\ current_category' = NONE
    /\ current_session_duration' = 0
    /\ triggered_rule' = NoRule
    /\ message' = NONE

ForgetTick ==
    /\ ForgetLocals
    /\ hist' = [hist EXCEPT !.tick = NoHist.tick, !.fired_rule = NoRule, !.fired_before = -1,
                            !.waited = 0, !.nudge_answer = NONE, !.delivery = NONE]

\* run.py:113
Sleep ==
    /\ pc = "sleep"
    /\ now + SLEEP_SECONDS <= MaxTime
    /\ now' = now + SLEEP_SECONDS
    /\ pc' = "observe"
    /\ ForgetTick
    /\ UNCHANGED <<session_vars, cache_vars, log_vars, engine_vars, config_file>>

\* An except clause that does not take the tick's exception: run() is left
BackoffReraises ==
    /\ pc = "backoff"
    /\ pc' = "crashed"
    /\ ForgetTick
    /\ UNCHANGED <<now, session_vars, cache_vars, log_vars, engine_vars, config_file>>

\* run.py:125-127: the tick's exception is printed and the loop backs off
Backoff ==
    /\ pc = "backoff"
    /\ now + BACKOFF_SECONDS <= MaxTime
    /\ now' = now + BACKOFF_SECONDS
    /\ pc' = "observe"
    /\ ForgetTick
    /\ UNCHANGED <<session_vars, cache_vars, log_vars, engine_vars, config_file>>

\* The calls between two readings of the clock that wait for something outside
\* the process: the Classifier Service (before run.py:77 and 81) and the write of
\* the session log (between run.py:77 and 81)
Blocking == {"llm", "save_data"}

\* A second passes while the loop is inside such a call, at most MaxWait in a tick
Elapse ==
    /\ pc \in Blocking
    /\ now < MaxTime
    /\ hist.waited < MaxWait
    /\ now' = now + 1
    /\ hist' = [hist EXCEPT !.waited = @ + 1]
    /\ UNCHANGED <<pc, session_vars, local_vars, cache_vars, log_vars, engine_vars,
                   config_file>>

----------------------------------------------------------------------------
(* KeyboardInterrupt *)

\* The statements of run.py:53-113, inside the try
InTry ==
    {"observe", "categorize", "llm", "save_cache", "check", "save_session", "save_data",
     "start_time", "start_category", "start_name", "duration", "evaluate", "nudge",
     "notify", "set_flag", "sleep"}

\* run.py:115-117: Ctrl-C inside the try; no except Exception on the way catches it
Interrupt ==
    /\ pc \in InTry
    /\ pc' = "handler"
    /\ ForgetLocals
    /\ hist' = [hist EXCEPT !.tick = NoHist.tick, !.fired_rule = NoRule, !.fired_before = -1,
                            !.waited = 0, !.nudge_answer = NONE, !.delivery = NONE,
                            !.interrupted = TRUE]
    /\ UNCHANGED <<now, session_vars, cache_vars, log_vars, engine_vars, config_file>>

\* run.py:127: Ctrl-C during the back-off sleep, which is inside the except
\* Exception clause and outside the try: nothing catches it, run() is left
InterruptBackoff ==
    /\ pc = "backoff"
    /\ pc' = "crashed"
    /\ ForgetLocals
    /\ hist' = [hist EXCEPT !.tick = NoHist.tick, !.fired_rule = NoRule, !.fired_before = -1,
                            !.waited = 0, !.nudge_answer = NONE, !.delivery = NONE,
                            !.interrupted = TRUE]
    /\ UNCHANGED <<now, session_vars, cache_vars, log_vars, engine_vars, config_file>>

\* run.py:117-124 with data_manager.py:52-59
Handler ==
    /\ pc = "handler"
    /\ IF TruthyStr(current_session_app_name)
       THEN /\ data' = Append(data, Entry(current_session_app_name,
                                          current_session_category,
                                          current_session_start_time, now))
            /\ pc' = "handler_save"
       ELSE /\ data' = data
            /\ pc' = "done"
    /\ UNCHANGED <<now, session_vars, local_vars, cache_vars, log_file, engine_vars,
                   config_file, hist>>

\* data_manager.py:60, then run.py:124: break, run() returns
HandlerSave ==
    /\ pc = "handler_save"
    /\ log_file' = data
    /\ pc' = "done"
    /\ UNCHANGED <<now, session_vars, local_vars, cache_vars, data, engine_vars,
                   config_file, hist>>

\* data_manager.py:33 raises inside the except KeyboardInterrupt clause: run() is left
HandlerSaveFails ==
    /\ pc = "handler_save"
    /\ pc' = "crashed"
    /\ UNCHANGED <<now, session_vars, local_vars, cache_vars, log_vars, engine_vars,
                   config_file, hist>>

----------------------------------------------------------------------------
(* The user edits or removes rules_config.json while the program runs *)

Running == pc \notin {"construct", "done", "crashed"}

\* The file's modification time is later than any seen so far
Later == last_modified_time + hist.edits + 2

EditConfigTo(contents) ==
    /\ Running
    /\ hist.edits < MaxEdits
    /\ \E c \in contents :
          /\ ~(config_file.exists /\ config_file.content = c)
          /\ config_file' = [exists |-> TRUE, mtime |-> Later, content |-> c]
    /\ hist' = [hist EXCEPT !.edits = @ + 1]
    /\ UNCHANGED <<pc, now, session_vars, local_vars, cache_vars, log_vars, engine_vars>>

EditConfig == EditConfigTo(ConfigContents)

\* What the rule file is overwritten with while the poll loop runs: JSON of
\* another shape, or the rules it had
LoopEdits ==
    {Config("shape", << >>)} \cup {f.content : f \in LoopConfigFiles}

EditLoopConfig == EditConfigTo(LoopEdits)

RemoveConfig ==
    /\ Running
    /\ hist.edits < MaxEdits
    /\ config_file.exists
    /\ config_file' = NoFile
    /\ hist' = [hist EXCEPT !.edits = @ + 1]
    /\ UNCHANGED <<pc, now, session_vars, local_vars, cache_vars, log_vars, engine_vars>>

----------------------------------------------------------------------------
(* The poll loop, python run.py *)

Tick ==
    \/ Observe \/ ObserveFails
    \/ CategorizeHit \/ CategorizeMiss \/ QueryLLM \/ SaveCache \/ SaveCacheFails
    \/ Check \/ SaveSession \/ SaveData \/ SaveDataFails
    \/ StartTime \/ StartCategory \/ StartName
    \/ Duration \/ Evaluate
    \/ GenerateNudge \/ Notify \/ SetFlag
    \/ Sleep \/ Backoff

Next ==
    \/ Construct
    \/ Tick
    \/ Elapse
    \/ Interrupt \/ InterruptBackoff \/ Handler \/ HandlerSave \/ HandlerSaveFails

Spec == Init /\ [][Next]_vars

\* The poll loop while the rule file is edited, with the back-off sleep of
\* run.py:127 returning: time.sleep(5) ends unless it is interrupted
NextFaults ==
    \/ Next
    \/ EvaluateRaises
    \/ EditLoopConfig

SpecFaults == Init /\ [][NextFaults]_vars /\ WF_vars(Backoff)

\* The poll loop under rules that share one action name, with thresholds that
\* let two sessions be nudged within MaxTicks ticks, and an edit of the file
\* that exchanges the thresholds
ReloadConfigFiles ==
    {File(Config("ok", << <<"Work", 0, "take_a_break">>,
                          <<"Gaming", 1, "take_a_break">> >>))}

ReloadEdits ==
    {Config("ok", << <<"Work", 1, "take_a_break">>,
                     <<"Gaming", 0, "take_a_break">> >>)}

EditReloadConfig == EditConfigTo(ReloadEdits)

InitReload == Files(ReloadConfigFiles)

NextReload ==
    \/ Next
    \/ EditReloadConfig

SpecReload == InitReload /\ [][NextReload]_vars

----------------------------------------------------------------------------
(* The rule engine on its own, driven as rules_engine.py:77-95 drives it: a  *)
(* caller that asks evaluate_current_session about a category and a duration *)
(* while the clock runs and the rule file is edited.                         *)

Categories == {"Work", "Gaming", "Other"}

NewEngine ==
    /\ pc = "construct"
    /\ ConstructEngine("engine")
    /\ UNCHANGED <<now, session_vars, local_vars, cache_vars, log_vars,
                   last_nudged_time, config_file>>

\* rules_engine.py:90: a call that returns
CallEvaluate ==
    /\ pc = "engine"
    /\ \E category \in Categories, duration \in 0..MaxDuration :
          LET e == evaluate_current_session(category, duration, now)
          IN  /\ ~e.raised
              /\ rules' = e.rules
              /\ last_modified_time' = e.last_modified_time
              /\ last_nudged_time' = e.last_nudged_time
              /\ triggered_rule' = e.result
              /\ current_session_category' = category
              /\ current_session_duration' = duration
              /\ hist' = [Loaded(hist, e.loaded) EXCEPT
                            !.fired_rule = e.rule, !.fired_before = e.before]
    /\ UNCHANGED <<pc, now, current_session_start_time, current_session_app_name,
                   last_app_data, nudged_for_session, current_app_data,
                   current_category, message, cache_vars, log_vars, config_file>>

\* rules_engine.py:90: a call that raises
CallEvaluateRaises ==
    /\ pc = "engine"
    /\ LET e == evaluate_current_session("Work", 0, now)
       IN  /\ e.raised
           /\ last_modified_time' = e.last_modified_time
    /\ pc' = "crashed"
    /\ UNCHANGED <<now, session_vars, local_vars, cache_vars, log_vars, rules,
                   last_nudged_time, config_file, hist>>

\* rules_engine.py:95
EngineSleep ==
    /\ pc = "engine"
    /\ now + SLEEP_SECONDS <= MaxTime
    /\ now' = now + SLEEP_SECONDS
    /\ UNCHANGED <<pc, session_vars, local_vars, cache_vars, log_vars, engine_vars,
                   config_file, hist>>

NextEngine ==
    \/ NewEngine
    \/ CallEvaluate \/ CallEvaluateRaises
    \/ EngineSleep
    \/ EditConfig \/ RemoveConfig

SpecEngine == InitEngine /\ [][NextEngine]_vars
----------------------------------------------------------------------------
(* Session tracking *)

\* The statements of a tick after the tracker block, run.py:92-113
AfterTracker == {"duration", "evaluate", "nudge", "notify", "set_flag", "sleep"}

\* C1: on a tick with a non-null observation the open session is closed and a
\* new one opened exactly when no session is open, or the observed identity
\* differs from the open session's, or the category differs; the closed session
\* is the one record the tick appends, the new session carries the observation's
\* log label, category and identity; otherwise session and log are as the tick
\* found them
C1_BoundaryRule ==
    (pc \in AfterTracker /\ Truthy(hist.tick.obs)) =>
        LET t == hist.tick
        IN  IF ~t.open \/ t.obs # t.last \/ current_category # t.category
            THEN /\ current_session_app_name = _get_app_info(t.obs).app_name_for_log
                 /\ current_session_category = current_category
                 /\ last_app_data = t.obs
                 /\ current_session_start_time <= now
                 /\ IF t.open
                    THEN /\ Len(data) = t.records + 1
                         /\ data[Len(data)].app_name = t.app_name
                         /\ data[Len(data)].category = t.category
                         /\ data[Len(data)].start_time = t.start_time
                         /\ data[Len(data)].end_time <= current_session_start_time
                    ELSE Len(data) = t.records
            ELSE /\ current_session_app_name = t.app_name
                 /\ current_session_category = t.category
                 /\ current_session_start_time = t.start_time
                 /\ last_app_data = t.last
                 /\ Len(data) = t.records

\* Two browser tabs of one category: the change of tab closed a session
C1_TabChange ==
    /\ pc = "duration"
    /\ hist.tick.open
    /\ hist.tick.obs.kind = "dict"
    /\ hist.tick.last.kind = "dict"
    /\ hist.tick.obs # hist.tick.last
    /\ current_category = hist.tick.category
    /\ Len(data) = hist.tick.records + 1
    /\ current_session_app_name # hist.tick.app_name

\* C2: at a graceful shutdown the session log holds as many records as
\* sessions were opened
C2_RecordsEqualBoundaries ==
    pc = "done" => Len(log_file) = hist.opened

RECURSIVE SumDurations(_)
SumDurations(records) ==
    IF records = << >> THEN 0
    ELSE records[1].duration_seconds + SumDurations(Tail(records))

\* C3: at a graceful shutdown each record starts when the record before it
\* ends, and the durations add up to the time from the first non-null
\* observation to the shutdown
C3_SessionsTileTime ==
    pc = "done" =>
        /\ \A i \in 2..Len(log_file) :
              log_file[i].start_time = log_file[i - 1].end_time
        /\ hist.first_observed # -1 =>
              SumDurations(log_file) = now - hist.first_observed

\* C4: once the interrupt has arrived run() is never left by an exception, and
\* when it returns the session that was open is the last record of the log
C4_InterruptIsGraceful ==
    hist.interrupted =>
        /\ pc # "crashed"
        /\ (pc = "done" /\ TruthyStr(current_session_app_name)) =>
              /\ log_file # << >>
              /\ log_file[Len(log_file)] =
                    Entry(current_session_app_name, current_session_category,
                          current_session_start_time, now)

----------------------------------------------------------------------------
(* Categorization *)

\* The key of the activity the tick is categorizing
CurrentKey == cache_key(CategorizeArg(current_app_data))

\* C5: a categorization whose key is in the category cache returns the stored
\* category in one step, without a call of the Classifier Service, and leaves
\* the in-memory map and the category store as they were
C5_CacheHit ==
    [][(pc = "categorize" /\ CurrentKey \in DOMAIN category_cache /\ pc' # "handler")
         => /\ pc' = "check"
            /\ current_category' = category_cache[CurrentKey]
            /\ category_cache' = category_cache
            /\ cache_file' = cache_file
            /\ hist'.llm_calls = hist.llm_calls]_vars

\* A hit on a key the category store does not hold (its write had failed): the
\* category is returned and the store still lacks the key
C5_HitOnUnsavedKey ==
    /\ pc = "check"
    /\ CurrentKey \in DOMAIN category_cache
    /\ CurrentKey \notin DOMAIN cache_file
    /\ current_category = category_cache[CurrentKey]

\* C6: a key whose Classifier call failed is cached as Other, every
\* categorization of it returns Other, and the service is never asked about it
\* again
C6_FallbackIsCached ==
    \A key \in DOMAIN hist.llm_answer :
        hist.llm_answer[key] = LLMFailure =>
            /\ key \in DOMAIN category_cache
            /\ category_cache[key] = "Other"
            /\ hist.llm_calls[key] = 1
            /\ (pc = "check" /\ CurrentKey = key) => current_category = "Other"

\* The activity of the open session is observed again after its Classifier call
\* had failed: Other is returned from the cache
C6_FailedKeyAgain ==
    /\ pc = "check"
    /\ hist.tick.open
    /\ hist.tick.last = current_app_data
    /\ CurrentKey \in DOMAIN hist.llm_answer
    /\ hist.llm_answer[CurrentKey] = LLMFailure
    /\ hist.llm_calls[CurrentKey] = 1
    /\ current_category = "Other"

\* C7: every category the agent stores or returns, every open session's category
\* and every record's category is one of the six; an answer that is not
\* exactly one of them is stored as Other
C7_CategoryClosure ==
    /\ \A key \in DOMAIN category_cache : category_cache[key] \in valid_categories
    /\ \A key \in DOMAIN cache_file : cache_file[key] \in valid_categories
    /\ \A key \in DOMAIN hist.llm_answer :
          category_cache[key] = IF hist.llm_answer[key] \in valid_categories
                                THEN hist.llm_answer[key] ELSE "Other"
    /\ current_category \in valid_categories \cup {NONE}
    /\ TruthyStr(current_session_app_name) =>
          current_session_category \in valid_categories
    /\ \A i \in 1..Len(data) : data[i].category \in valid_categories
    /\ \A i \in 1..Len(log_file) : log_file[i].category \in valid_categories

\* The service answered "WORK " and the session it opened was logged as Other
C7_NearMissLogged ==
    /\ data # << >>
    /\ \E activity \in Activities :
          LET key == cache_key(CategorizeArg(activity))
          IN  /\ key \in DOMAIN hist.llm_answer
              /\ hist.llm_answer[key] = "WORK "
              /\ category_cache[key] = "Other"
              /\ data[Len(data)].app_name = _get_app_info(activity).app_name_for_log
              /\ data[Len(data)].category = "Other"

----------------------------------------------------------------------------
(* Rule evaluation *)

\* The action of the rule the last evaluation fired
FiredAction == hist.fired_rule[3]

\* A nudge for an action that had fired before
FiredAgain == hist.fired_rule # NoRule /\ hist.fired_before # -1

\* C8 as stated: when a nudge for action a fires again, more than T seconds have
\* passed since the nudge for a before it, for every rule (c, T, a) of the rule
\* set with that action
C8_SingleTriggerPerWindow ==
    FiredAgain =>
        \A i \in 1..Len(rules) :
            rules[i][3] = FiredAction =>
                last_nudged_time[FiredAction] - hist.fired_before > rules[i][2]

\* C8, amended: when a rule (c, T, a) fires a nudge for an action a that has
\* fired before, more than T seconds have passed since the nudge for a before
\* it, T being the threshold of the rule that fires
C8_WindowOfFiringRule ==
    FiredAgain =>
        last_nudged_time[FiredAction] - hist.fired_before > hist.fired_rule[2]

\* An action fires for the second time, one second after its window closed
C8_SecondNudge ==
    /\ FiredAgain
    /\ last_nudged_time[FiredAction] - hist.fired_before = hist.fired_rule[2] + 1

\* The rule file can be read and its modification time is newer than the one
\* the engine holds
FileChanged ==
    /\ config_file.exists
    /\ config_file.content.json = "ok"
    /\ config_file.mtime > last_modified_time

\* C9: the evaluation that follows a change of the rule file holds the file's
\* rules afterwards and has compared the duration it was given with the
\* thresholds of the file
C9_HotReload ==
    [][(pc = "engine" /\ pc' = "engine" /\ now' = now /\ config_file' = config_file
          /\ FileChanged)
         => /\ rules' = config_file.content.rules
            /\ last_modified_time' = config_file.mtime
            /\ triggered_rule' # NoRule <=>
                  \E i \in 1..Len(config_file.content.rules) :
                     LET rule == config_file.content.rules[i]
                     IN  /\ rule[1] = current_session_category'
                         /\ current_session_duration' >= rule[2]
                         /\ DebounceAllows(rule[3], rule[2], last_nudged_time, now)]_vars

\* The file was edited to the threshold 1 for Work, and the evaluation after
\* the edit fired at the duration 1
C9_NewThresholdUsed ==
    /\ pc = "engine"
    /\ hist.edits = 1
    /\ config_file.exists
    /\ config_file.mtime > 1
    /\ last_modified_time = config_file.mtime
    /\ rules = << <<"Work", 1, "short_work_session">> >>
    /\ triggered_rule = <<"short_work_session", "Work", 1>>

\* C10: the engine's rule set is the one last read from the file, and the
\* defaults only when the file was never read
C10_LastGoodRules ==
    pc = "engine" =>
        rules = IF hist.loaded_ok THEN hist.last_good ELSE DEFAULT_RULES

----------------------------------------------------------------------------
(* Nudges *)

\* C11: an open session gets at most one notification; while the engine is
\* being asked, or a nudge is on its way, none was sent for the session and its
\* flag is clear; once the flag is set the session has had its notification
C11_OneNudgePerSession ==
    /\ hist.nudges <= 1
    /\ pc \in {"evaluate", "nudge", "notify"} =>
          hist.nudges = 0 /\ ~nudged_for_session
    /\ nudged_for_session => hist.nudges = 1

\* A tick of a session that had its nudge: the engine was not asked although
\* the duration is past the threshold
C11_TickAfterNudge ==
    /\ pc = "sleep"
    /\ Truthy(current_app_data)
    /\ hist.tick.nudged
    /\ nudged_for_session
    /\ hist.nudges = 1
    /\ triggered_rule = NoRule
    /\ hist.fired_rule = NoRule
    /\ current_session_duration >= 2

\* C12: a rule fires for the open session only at a tick whose live duration
\* has reached the rule's threshold, a tick that ends with the duration at or
\* past a threshold of the session's category ends with the session nudged, the
\* session gets one nudge, and the boundary that follows appends one record
\* with the session's category and the time it was open as duration
C12_NudgeAtThreshold ==
    /\ pc \in {"nudge", "notify", "set_flag"} =>
          /\ hist.fired_rule[1] = current_session_category
          /\ current_session_duration >= hist.fired_rule[2]
          /\ current_session_duration = now - current_session_start_time
          /\ triggered_rule = <<hist.fired_rule[3], current_session_category,
                                current_session_duration>>
    /\ (pc = "sleep" /\ Truthy(current_app_data)
          /\ \E i \in 1..Len(rules) :
                /\ rules[i][1] = current_session_category
                /\ current_session_duration >= rules[i][2])
          => nudged_for_session /\ hist.nudges = 1
    /\ (pc = "duration" /\ hist.tick.open /\ Len(data) # hist.tick.records) =>
          /\ Len(data) = hist.tick.records + 1
          /\ data[Len(data)].category = hist.tick.category
          /\ data[Len(data)].duration_seconds =
                data[Len(data)].end_time - hist.tick.start_time
          /\ data[Len(data)].end_time <= now
          /\ data[Len(data)].end_time >= now - hist.waited

\* A Work session was nudged at its threshold of 1 s and, when the activity
\* changed a second later, logged with a duration of 2 s
C12_NudgedSessionLogged ==
    /\ pc = "duration"
    /\ hist.tick.open
    /\ hist.tick.nudged
    /\ hist.tick.category = "Work"
    /\ hist.tick.obs # hist.tick.last
    /\ Len(data) = hist.tick.records + 1
    /\ data[Len(data)].category = "Work"
    /\ data[Len(data)].duration_seconds = 2

----------------------------------------------------------------------------
(* Errors inside a tick *)

\* C13: run() is left by an exception only after an interrupt; the back-off
\* lasts BACKOFF_SECONDS; and a tick that was left by an error is followed by
\* the head of the loop again, unless the interrupt arrives first (the clock
\* of the model stops at MaxTime, so a back-off that would pass it is not
\* followed)
C13_ErrorsDoNotEndTheLoop ==
    /\ [](pc = "crashed" => hist.interrupted)
    /\ [][(pc = "backoff" /\ pc' = "observe") => now' = now + BACKOFF_SECONDS]_vars
    /\ ((pc = "backoff" /\ now + BACKOFF_SECONDS <= MaxTime)
           ~> (pc = "observe" \/ hist.interrupted))

\* The loop is at its head again five seconds or more after the rule file
\* became JSON of another shape and evaluate_current_session raised on it
C13_AfterRuleLoadingFailure ==
    /\ pc = "observe"
    /\ ~hist.interrupted
    /\ now >= BACKOFF_SECONDS
    /\ config_file.content.json = "shape"
    /\ last_modified_time = config_file.mtime
    /\ TruthyStr(current_session_app_name)

----------------------------------------------------------------------------
(* Construction of the rule engine *)

\* C14: an engine constructed on a rule file that is missing or does not hold
\* a well-formed rule list is constructed all the same and holds the default
\* rules, under which an evaluation for Other returns no trigger
C14_DefaultsAtConstruction ==
    (pc # "construct" /\ hist.edits = 0
       /\ (~config_file.exists \/ config_file.content.json # "ok")) =>
        /\ pc # "crashed"
        /\ rules = DEFAULT_RULES
        /\ current_session_category = "Other" => triggered_rule = NoRule

----------------------------------------------------------------------------
(* Keys and labels *)

\* C15: when the loop has classified an activity, the category is in the cache
\* under the raw name of a Simple activity and under "chrome|title|url" of a
\* Browser activity
C15_KeyOfActivity ==
    pc = "check" =>
        /\ cache_key(current_app_data) \in DOMAIN category_cache
        /\ category_cache[cache_key(current_app_data)] = current_category

----------------------------------------------------------------------------
(* The open session *)

\* Between two ticks: the tick has ended, by its sleep or by its back-off
TickEnded == pc \in {"sleep", "backoff", "observe"}

\* C16: from the tick that opened the first session on, every tick ends with
\* one open session, the one of the identity last tracked, whether the tick
\* saw an activity, saw none or was left by an error; before it there is none;
\* and a tick that processed an activity to its end leaves that activity's
\* session open
C16_OneOpenSession ==
    TickEnded =>
        /\ hist.opened >= 1 =>
              /\ TruthyStr(current_session_app_name)
              /\ Truthy(last_app_data)
              /\ current_session_app_name = _get_app_info(last_app_data).app_name_for_log
              /\ current_session_category \in valid_categories
        /\ hist.opened = 0 =>
              /\ ~TruthyStr(current_session_app_name)
              /\ ~Truthy(last_app_data)
        /\ (pc = "sleep" /\ Truthy(current_app_data)) =>
              /\ hist.opened >= 1
              /\ last_app_data = current_app_data

\* A tick that closed a session was left by the failing write of the log: the
\* session it closed is still the open one
C16_OpenAfterFailedTick ==
    /\ pc = "backoff"
    /\ hist.opened >= 1
    /\ Len(data) > Len(log_file)
    /\ TruthyStr(current_session_app_name)
    /\ data[Len(data)].app_name = current_session_app_name
    /\ data[Len(data)].start_time = current_session_start_time

\* C17: when a tick has ended and the log file is up to date with the list in
\* memory, the file holds one record for each session closed so far (every
\* session opened but the open one) and no session twice
C17_EachSessionOnce ==
    (pc = "sleep" /\ ~hist.interrupted /\ hist.opened >= 1 /\ log_file = data) =>
        /\ Len(log_file) = hist.opened - 1
        /\ \A i, j \in 1..Len(log_file) :
              i < j => log_file[i].start_time # log_file[j].start_time

\* C18: the key, the log label and the classification subject derived from a
\* Simple activity are its name, and those derived from a Browser activity
\* with a missing title or URL are the ones derived with the empty string in
\* the field's place
C18_MissingFieldsAreEmpty ==
    pc = "check" =>
        LET Shown(x) == IF x = NONE THEN "" ELSE x
            activity == current_app_data
            blank == IF activity.kind = "dict"
                     THEN [activity EXCEPT
                             !.active_tab_title = Shown(@),
                             !.active_tab_url = Shown(@)]
                     ELSE activity
        IN  /\ _get_app_info(activity) = _get_app_info(blank)
            /\ CurrentKey = cache_key(CategorizeArg(blank))
            /\ CurrentKey \in DOMAIN category_cache
            /\ activity.kind = "str" =>
                  /\ CurrentKey = activity.name
                  /\ _get_app_info(activity).app_name_for_log = activity.name
                  /\ _get_app_info(activity).categorization_string = activity.name

----------------------------------------------------------------------------
(* evaluate_current_session, call by call *)

\* A step that is a call of evaluate_current_session which returns
EvaluateCalled ==
    /\ pc = "engine"
    /\ pc' = "engine"
    /\ now' = now
    /\ config_file' = config_file

\* C19: the call returns (action, category, duration) of the first rule of the
\* rule set, in list order, whose category is the one asked about, whose
\* threshold the duration has reached and whose action has never fired or last
\* fired more than the threshold ago; rules before it that do not qualify,
\* debounced ones among them, are passed over; it returns none when no rule
\* qualifies
C19_FirstQualifyingRule ==
    [][EvaluateCalled =>
         LET rs == rules'
             category == current_session_category'
             duration == current_session_duration'
             Qualifies(i) ==
                 /\ rs[i][1] = category
                 /\ duration >= rs[i][2]
                 /\ \/ rs[i][3] \notin DOMAIN last_nudged_time
                    \/ now - last_nudged_time[rs[i][3]] > rs[i][2]
         IN  IF \E i \in 1..Len(rs) : Qualifies(i)
             THEN \E i \in 1..Len(rs) :
                     /\ Qualifies(i)
                     /\ \A j \in 1..(i - 1) : ~Qualifies(j)
                     /\ triggered_rule' = <<rs[i][3], category, duration>>
             ELSE triggered_rule' = NoRule]_vars

\* The second rule fired at a call at which the first rule matched the
\* category and the duration but was inside the window of its own action
C19_DebouncedRuleSkipped ==
    /\ pc = "engine"
    /\ Len(rules) = 2
    /\ rules[1][3] # rules[2][3]
    /\ hist.fired_rule = rules[2]
    /\ triggered_rule = <<rules[2][3], current_session_category, current_session_duration>>
    /\ rules[1][1] = current_session_category
    /\ current_session_duration >= rules[1][2]
    /\ rules[1][3] \in DOMAIN last_nudged_time
    /\ last_nudged_time[rules[2][3]] - last_nudged_time[rules[1][3]] <= rules[1][2]

\* C20: a call that returns a trigger for an action sets that action's time
\* of last firing to the time of the call and leaves the other actions' times
\* as they were; a call that returns none leaves the debounce map as it was
C20_DebounceFrame ==
    [][EvaluateCalled =>
         IF triggered_rule' # NoRule
         THEN last_nudged_time' = Put(last_nudged_time, triggered_rule'[1], now)
         ELSE last_nudged_time' = last_nudged_time]_vars

\* A call returned none although a rule matched the category and the duration:
\* its action had fired earlier and is still inside its window
C20_SuppressedAttempt ==
    /\ pc = "engine"
    /\ triggered_rule = NoRule
    /\ \E i \in 1..Len(rules) :
          /\ rules[i][1] = current_session_category
          /\ current_session_duration >= rules[i][2]
          /\ rules[i][3] \in DOMAIN last_nudged_time
          /\ now - last_nudged_time[rules[i][3]] >= 1
          /\ now - last_nudged_time[rules[i][3]] <= rules[i][2]

----------------------------------------------------------------------------
(* The classification cache *)

\* One map holds every entry of the other, with the same category
SubMap(f, g) == \A key \in DOMAIN f : key \in DOMAIN g /\ g[key] = f[key]

\* C21: the write of a miss that succeeds leaves the cache file equal to the
\* whole map in memory; the map only gains entries, an entry keeps its category;
\* and the file never holds an entry the map does not
C21_WriteThrough ==
    /\ [][(pc = "save_cache" /\ pc' = "check") =>
             /\ cache_file' = category_cache'
             /\ cache_key(CategorizeArg(current_app_data)) \in DOMAIN cache_file']_vars
    /\ [][SubMap(category_cache, category_cache')]_vars
    /\ [](pc # "construct" => SubMap(cache_file, category_cache))

\* The second tick classified a second key and wrote the file, five seconds
\* after the first: the first tick was left by the failing write of its own
\* entry (no other step of a first tick that asked the service backs off), and
\* the file now holds both entries
C21_FailedEntryWritten ==
    /\ pc = "check"
    /\ hist.ticks = 2
    /\ now >= BACKOFF_SECONDS
    /\ Cardinality(DOMAIN hist.llm_calls) = 2
    /\ cache_file = category_cache
    /\ \A key \in DOMAIN hist.llm_calls : key \in DOMAIN cache_file

----------------------------------------------------------------------------
(* A tick without an activity *)

\* What a tick without an activity leaves alone: the open session and its
\* flag, the cache and its file, the log and its file, the engine, the record
\* of the calls made to the Classifier Service and of the notifications sent
IdleFrame ==
    /\ UNCHANGED <<session_vars, cache_vars, log_vars, engine_vars>>
    /\ hist'.llm_calls = hist.llm_calls
    /\ hist'.nudges = hist.nudges
    /\ hist'.opened = hist.opened

\* C22: the observation of no activity goes straight to the sleep of the tick
\* and the sleep to the next observation (unless the interrupt arrives), and
\* neither step touches the session, the flag, the cache, the debounce state
\* or the log; the duration a later tick computes is the time since the session
\* was opened, the idle ticks included
C22_IdleTickFrame ==
    /\ [][(pc = "observe" /\ pc' \notin {"backoff", "handler"}
            /\ ~Truthy(current_app_data'))
           => pc' = "sleep" /\ IdleFrame]_vars
    /\ [][(pc = "sleep" /\ ~Truthy(current_app_data) /\ pc' # "handler")
           => pc' = "observe" /\ now' = now + SLEEP_SECONDS /\ IdleFrame]_vars
    /\ [](pc \in {"evaluate", "nudge", "notify", "set_flag"} =>
            current_session_duration = now - current_session_start_time)

\* A Work session opened by the first tick is nudged by the third at the
\* duration 2, past the threshold 1 it would have been nudged at had the second
\* tick seen it: the second tick saw no activity and the session stayed open
C22_NudgedAfterIdleTick ==
    /\ pc = "nudge"
    /\ hist.ticks = 3
    /\ hist.opened = 1
    /\ hist.tick.open
    /\ data = << >>
    /\ current_session_category = "Work"
    /\ hist.fired_rule = <<"Work", 1, "short_work_session">>
    /\ current_session_duration = 2
    /\ now < BACKOFF_SECONDS

----------------------------------------------------------------------------
(* From the trigger to the flag *)

\* C23: a trigger is followed by the nudge text, the one notification and the
\* flag, in that order and whatever the Classifier Service and the Notifier
\* do, unless the interrupt arrives: the text is the service's or, when it
\* failed, the fallback; the notification is the session's only one; a tick
\* that had a trigger ends with the flag set; none of the steps writes the
\* cache or leaves the tick by an error
C23_TriggerNotifiesOnce ==
    /\ [][(pc = "evaluate" /\ triggered_rule' # NoRule) => pc' = "nudge"]_vars
    /\ [][(pc = "nudge" /\ pc' # "handler") =>
             /\ pc' = "notify"
             /\ message' = IF hist'.nudge_answer = LLMFailure
                           THEN NudgeFallback ELSE hist'.nudge_answer
             /\ hist'.nudges = 0
             /\ UNCHANGED <<session_vars, cache_vars>>]_vars
    /\ [][(pc = "notify" /\ pc' # "handler") =>
             /\ pc' = "set_flag"
             /\ hist'.nudges = 1
             /\ UNCHANGED <<session_vars, message, cache_vars>>]_vars
    /\ [][(pc = "set_flag" /\ pc' # "handler") =>
             /\ pc' = "sleep"
             /\ nudged_for_session'
             /\ hist'.nudges = 1
             /\ UNCHANGED cache_vars]_vars
    /\ []((pc = "sleep" /\ triggered_rule # NoRule) =>
             nudged_for_session /\ hist.nudges = 1)

\* The Classifier Service failed on the nudge prompt and the Notifier failed
\* to show the fallback: the tick ends with the flag set all the same
C23_FallbackNotShown ==
    /\ pc = "sleep"
    /\ triggered_rule # NoRule
    /\ hist.nudge_answer = LLMFailure
    /\ message = NudgeFallback
    /\ hist.delivery = "failed"
    /\ hist.nudges = 1
    /\ nudged_for_session

----------------------------------------------------------------------------
(* The record of a closed session *)

\* C24: a step that appends to the session log appends one record and leaves
\* the records before it as they were; the record has the label, the category
\* and the start time the open session was given when it was opened, the time
\* of the step as end time, not before the start, and their difference as
\* duration
C24_RecordOfOpenedSession ==
    [][Len(data') > Len(data) =>
         /\ Len(data') = Len(data) + 1
         /\ SubSeq(data', 1, Len(data)) = data
         /\ LET record == data'[Len(data')]
            IN  /\ record.app_name = hist.session.app_name
                /\ record.category = hist.session.category
                /\ record.start_time = hist.session.start_time
                /\ record.end_time = now
                /\ record.end_time >= record.start_time
                /\ record.duration_seconds = record.end_time - record.start_time
                /\ record.duration_seconds >= 0]_vars

----------------------------------------------------------------------------
(* The debounce inside the poll loop *)

\* The rules of a list that match a category and a duration, the debounce aside
Matching(rs, category, duration) ==
    { i \in 1..Len(rs) : rs[i][1] = category /\ duration >= rs[i][2] }

\* C25: an evaluation of the poll loop that returns fires the first rule of the
\* loaded list that matches the session's category and duration, and returns
\* none only when no rule matches; when the action of that rule had fired
\* before, it fired before the open session started and more than the rule's
\* threshold ago
C25_DebounceNeverSuppresses ==
    [][(pc = "evaluate" /\ pc' \in {"nudge", "sleep"}) =>
         LET matched == Matching(rules', current_session_category,
                                 current_session_duration)
         IN  IF matched = {}
             THEN triggered_rule' = NoRule
             ELSE /\ pc' = "nudge"
                  /\ hist'.fired_rule = rules'[Min(matched)]
                  /\ triggered_rule' = <<rules'[Min(matched)][3],
                                         current_session_category,
                                         current_session_duration>>
                  /\ hist'.fired_before # -1 =>
                        /\ hist'.fired_before < current_session_start_time
                        /\ now - hist'.fired_before > rules'[Min(matched)][2]]_vars

\* The Gaming rule fires the action the Work rule fired for the session before,
\* one second after the window of its threshold closed
C25_SharedActionFiresAgain ==
    /\ pc = "nudge"
    /\ hist.fired_rule[1] = "Gaming"
    /\ hist.fired_rule[2] >= 1
    /\ hist.fired_before # -1
    /\ now - hist.fired_before = hist.fired_rule[2] + 1

----------------------------------------------------------------------------
(* Identity and category *)

\* C26: when the loop compares an observation with the open session, an
\* observation of the identity last recorded has the category of the open
\* session, which is the category the cache holds for it; so the condition of
\* the boundary is true exactly when the identity differs
C26_BoundaryIsIdentityChange ==
    pc = "check" =>
        /\ current_category = category_cache[CurrentKey]
        /\ current_app_data = last_app_data =>
              /\ current_category = current_session_category
              /\ current_category = hist.tick.category
        /\ Boundary <=> current_app_data # last_app_data

\* The activity of the open session is observed again, after the service had
\* classified it in this run: the cache answers and there is no boundary
C26_SameIdentityAgain ==
    /\ pc = "check"
    /\ hist.tick.open
    /\ current_app_data = last_app_data
    /\ CurrentKey \in DOMAIN hist.llm_calls
    /\ hist.llm_calls[CurrentKey] = 1
    /\ current_category = current_session_category
    /\ ~Boundary

----------------------------------------------------------------------------
(* Interrupts and the session log *)

\* C27: the session log never holds more records than sessions were opened:
\* every record is the record of an opened session, and no session has two,
\* wherever the interrupt arrived
C27_NoSessionTwice ==
    Len(data) <= hist.opened

----------------------------------------------------------------------------
(* Calls of the Classifier Service *)

\* C28: the Classifier Service has been asked at most once about any key, a
\* key it was asked about is in the map in memory whatever became of the call
\* and of the write, and it is asked only about a key the map does not hold
C28_AskedOncePerKey ==
    /\ \A key \in DOMAIN hist.llm_calls :
          /\ hist.llm_calls[key] = 1
          /\ key \in DOMAIN category_cache
    /\ pc = "llm" => CurrentKey \notin DOMAIN category_cache

\* The call for a key failed and so did the write of the cache after it; the
\* tick after the back-off finds the key in the map, and the service has been
\* asked once
C28_HitAfterBothFailures ==
    /\ pc = "check"
    /\ now >= BACKOFF_SECONDS
    /\ CurrentKey \in DOMAIN hist.llm_answer
    /\ hist.llm_answer[CurrentKey] = LLMFailure
    /\ hist.llm_calls[CurrentKey] = 1
    /\ CurrentKey \notin DOMAIN cache_file
    /\ current_category = "Other"

============================================================================
